---- MODULE Spec2Model ----
(***************************************************************************)
(* Lead-management backend (smartlead-python): the leads / activities      *)
(* store, LeadService, the outbound endpoints and the inbound webhook      *)
(* normalizers, as a state machine with one action per request handler.    *)
(*                                                                         *)
(* A handler is a sequence of round trips to the store and to the vendor   *)
(* APIs.  Any one of them may raise: the parameter `fail' of a request is  *)
(* the ordinal of the round trip that raises (0: none does).  The handler  *)
(* functions thread a request context `st' through the calls they make:    *)
(*   st.leads, st.acts   the two tables as the request sees them           *)
(*   st.n, st.fail       round trips made so far / the one that raises     *)
(*   st.exc              the exception in flight (NoExc when none)         *)
(*   st.ret              the value returned by the last call               *)
(*   st.faulted, st.logfail, st.writes, st.scfail, st.dispatched, st.marked *)
(*                       history of the request, kept for the properties   *)
(*                       (writes: the ids whose status the request wrote)  *)
(***************************************************************************)
EXTENDS Integers, Sequences, FiniteSets, TLC

\* ---------------------------------------------------------------- bounds
MaxLeads == 2
MaxRequests == 2
MaxFail == 6
MaxProcs == 2

\* ------------------------------------------------------------ vocabulary
NoValue == "None"
NoneTok == "\\None"
NonePhone == <<NoneTok>>
NoExc == "none"
NoLead == 0

LeadStatus == {"new", "contacted", "qualified", "customer", "disqualified", "remarket"}

ActivityType == {"email_sent", "email_received", "call_made", "call_completed",
                 "lead_created", "status_changed", "whatsapp_message",
                 "call_analyzed", "meeting_scheduled", "meeting_canceled",
                 "meeting_rescheduled"}

LeadEmails == {"a@example.com"}
Emails == LeadEmails \cup {"b@example.com"}
Numbers == {"+15551234567"}
Texts == {"Hi, interested"}

\* dict.get(key) with the default None
Get(d, k) == IF k \in DOMAIN d THEN d[k] ELSE NoValue

\* dict.get(key, default)
GetD(d, k, default) == IF k \in DOMAIN d THEN d[k] ELSE default

\* str.replace('whatsapp:', ''): a string is the sequence of its tokens
StripWhatsapp(s) == SelectSeq(s, LAMBDA t : t # "whatsapp:")

\* leads[0] of a select without ORDER BY: the store decides which of the
\* matching rows comes first (ord), the lowest id when ord is no match
First(matches, ord) ==
    IF ord \in matches THEN ord
    ELSE CHOOSE i \in matches : \A j \in matches : i <= j

\* the orders worth telling apart for a lookup with these matches
Orders(matches) == IF matches = {} THEN {1} ELSE matches

\* Python truthiness of an optional phone string (None and '' are falsy)
Falsy(s) == s = NonePhone \/ s = <<>>

VARIABLES leads, activities, origin, hist, last, nreq, procs

vars == <<leads, activities, origin, hist, last, nreq, procs>>

\* ------------------------------------------------- request context (st)
Begin(fail) ==
    [leads |-> leads, acts |-> activities, n |-> 0, fail |-> fail,
     exc |-> NoExc, ret |-> NoValue, faulted |-> FALSE, logfail |-> FALSE,
     writes |-> <<>>, scfail |-> FALSE, dispatched |-> 0, lead_id |-> NoLead,
     marked |-> <<>>]

\* the context of a request that finds both tables empty
Begin0 ==
    [leads |-> <<>>, acts |-> <<>>, n |-> 0, fail |-> 0,
     exc |-> NoExc, ret |-> NoValue, faulted |-> FALSE, logfail |-> FALSE,
     writes |-> <<>>, scfail |-> FALSE, dispatched |-> 0, lead_id |-> NoLead,
     marked |-> <<>>]

\* the next round trip is the one that raises
Raises(st) == st.n + 1 = st.fail

Fault(st) == [st EXCEPT !.n = @ + 1, !.exc = "Exception", !.faulted = TRUE]

Done(st) == [st EXCEPT !.n = @ + 1]

Raise(st, e) == [st EXCEPT !.exc = e]

\* --------------------------------------------------------- LeadService
\* log_activity as an upsert: it overwrites the newest record of the log
log_activity_upsert(st, activity_data) ==
    IF st.exc # NoExc THEN st
    ELSE IF Raises(st) THEN [Fault(st) EXCEPT !.logfail = TRUE]
    ELSE IF st.acts = <<>> THEN [Done(st) EXCEPT !.acts = Append(@, activity_data)]
    ELSE [Done(st) EXCEPT !.acts[Len(st.acts)] = activity_data]

log_activity(st, activity_data) ==
    IF st.exc # NoExc THEN st
    ELSE IF Raises(st) THEN [Fault(st) EXCEPT !.logfail = TRUE]
    ELSE [Done(st) EXCEPT !.acts = Append(@, activity_data)]

create_lead(st, lead) ==
    IF st.exc # NoExc THEN st
    ELSE IF Raises(st) THEN Fault(st)
    ELSE LET id == Len(st.leads) + 1
             lead_record == [id |-> id, status |-> lead.status, email |-> lead.email,
                             phone_number |-> lead.phone_number,
                             lead_source |-> lead.lead_source]
             s1 == [Done(st) EXCEPT !.leads = Append(@, lead_record)]
             s2 == log_activity(s1, [lead_id |-> id, activity_type |-> "lead_created",
                                     body |-> <<"Lead created in system">>])
         IN  IF s2.exc # NoExc THEN s2 ELSE [s2 EXCEPT !.ret = lead_record]

get_lead(st, lead_id) ==
    IF st.exc # NoExc THEN st
    ELSE IF Raises(st) THEN Fault(st)
    ELSE IF lead_id \notin DOMAIN st.leads
         THEN Raise(Done(st), "HTTP404")
         ELSE [Done(st) EXCEPT !.ret = st.leads[lead_id]]

\* update_lead_status with the guard of mark_as_contacted moved into it: the
\* write happens only for a lead that is new or contacted
update_lead_status_guarded(st, lead_id, new_status) ==
    IF st.exc # NoExc THEN st
    ELSE IF Raises(st) THEN Fault(st)
    ELSE IF lead_id \notin DOMAIN st.leads
         THEN Raise(Done(st), "Exception")
         ELSE IF st.leads[lead_id].status \notin {"new", "contacted"}
         THEN [Done(st) EXCEPT !.ret = st.leads[lead_id]]
         ELSE LET s1 == [Done(st) EXCEPT !.leads[lead_id].status = new_status,
                                         !.writes = Append(@, lead_id)]
                  s2 == log_activity(s1, [lead_id |-> lead_id,
                                          activity_type |-> "status_changed",
                                          body |-> <<"Lead status changed to ", new_status>>])
              IN  IF s2.exc # NoExc THEN [s2 EXCEPT !.scfail = TRUE]
                  ELSE [s2 EXCEPT !.ret = s1.leads[lead_id]]

\* update_lead_status that writes the status and logs nothing
update_lead_status_nolog(st, lead_id, new_status) ==
    IF st.exc # NoExc THEN st
    ELSE IF Raises(st) THEN Fault(st)
    ELSE IF lead_id \notin DOMAIN st.leads
         THEN Raise(Done(st), "Exception")
         ELSE [Done(st) EXCEPT !.leads[lead_id].status = new_status,
                               !.writes = Append(@, lead_id),
                               !.ret = [st.leads[lead_id] EXCEPT !.status = new_status]]

\* update_lead_status that catches the failure of the append and returns
update_lead_status_swallow(st, lead_id, new_status) ==
    IF st.exc # NoExc THEN st
    ELSE IF Raises(st) THEN Fault(st)
    ELSE IF lead_id \notin DOMAIN st.leads
         THEN Raise(Done(st), "Exception")
         ELSE LET s1 == [Done(st) EXCEPT !.leads[lead_id].status = new_status,
                                         !.writes = Append(@, lead_id)]
                  s2 == log_activity(s1, [lead_id |-> lead_id,
                                          activity_type |-> "status_changed",
                                          body |-> <<"Lead status changed to ", new_status>>])
              IN  IF s2.exc # NoExc
                  THEN [s2 EXCEPT !.scfail = TRUE, !.exc = NoExc, !.ret = s1.leads[lead_id]]
                  ELSE [s2 EXCEPT !.ret = s1.leads[lead_id]]

\* update_lead_status without the test of result.data: the Activity is logged
\* for an id that matched no row, and result.data[0] then raises
update_lead_status_nocheck(st, lead_id, new_status) ==
    IF st.exc # NoExc THEN st
    ELSE IF Raises(st) THEN Fault(st)
    ELSE LET s1 == IF lead_id \in DOMAIN st.leads
                   THEN [Done(st) EXCEPT !.leads[lead_id].status = new_status,
                                         !.writes = Append(@, lead_id)]
                   ELSE Done(st)
             s2 == log_activity(s1, [lead_id |-> lead_id,
                                     activity_type |-> "status_changed",
                                     body |-> <<"Lead status changed to ", new_status>>])
         IN  IF s2.exc # NoExc THEN [s2 EXCEPT !.scfail = TRUE]
             ELSE IF lead_id \notin DOMAIN st.leads THEN Raise(s2, "IndexError")
             ELSE [s2 EXCEPT !.ret = s1.leads[lead_id]]

update_lead_status(st, lead_id, new_status) ==
    IF st.exc # NoExc THEN st
    ELSE IF Raises(st) THEN Fault(st)
    ELSE IF lead_id \notin DOMAIN st.leads
         THEN Raise(Done(st), "Exception")
         ELSE LET s1 == [Done(st) EXCEPT !.leads[lead_id].status = new_status,
                                         !.writes = Append(@, lead_id)]
                  s2 == log_activity(s1, [lead_id |-> lead_id,
                                          activity_type |-> "status_changed",
                                          body |-> <<"Lead status changed to ", new_status>>])
              IN  IF s2.exc # NoExc THEN [s2 EXCEPT !.scfail = TRUE]
                  ELSE [s2 EXCEPT !.ret = s1.leads[lead_id]]

\* mark_as_contacted without the test of the current status
mark_as_contacted_noguard(st, lead_id) ==
    LET s1 == get_lead(st, lead_id)
    IN  IF s1.exc # NoExc THEN s1
        ELSE update_lead_status(s1, lead_id, "contacted")

mark_as_contacted(st, lead_id) ==
    LET s1 == get_lead(st, lead_id)
    IN  IF s1.exc # NoExc THEN s1
        ELSE IF s1.ret.status = "new"
             THEN update_lead_status(s1, lead_id, "contacted")
             ELSE s1

\* ---------------------------------------------------------- responses
\* `except Exception as e: raise HTTPException(status_code=500, ...)' of the
\* handlers of routers/leads.py; a handler that returns answers 200
http_response(st) ==
    IF st.exc = NoExc THEN [code |-> 200, outcome |-> Get(st.ret, "status")]
    ELSE [code |-> 500, outcome |-> "error"]

\* the request is over: the tables are what the request left, `last' records it
Finish(op, st, args) ==
    /\ st.fail = 0 \/ st.faulted
    /\ Len(st.leads) <= MaxLeads
    /\ leads' = st.leads
    /\ activities' = st.acts
    /\ origin' = origin \o [k \in 1..(Len(st.leads) - Len(leads)) |-> op]
    /\ nreq' = nreq + 1
    /\ hist' = [ntrans |-> [i \in DOMAIN st.leads |->
                               (IF i \in DOMAIN hist.ntrans THEN hist.ntrans[i] ELSE 0)
                               + Len(SelectSeq(st.writes, LAMBDA w : w = i))],
                appendfail |-> hist.appendfail \/ st.logfail,
                manual |-> hist.manual \/ (/\ op = "create_activity"
                                           /\ st.exc = NoExc
                                           /\ args.activity.activity_type = "status_changed")]
    /\ last' = [op |-> op, args |-> args, resp |-> http_response(st),
                exc |-> st.exc, faulted |-> st.faulted, writes |-> st.writes,
                scfail |-> st.scfail, dispatched |-> st.dispatched,
                lead_id |-> st.lead_id, logfail |-> st.logfail,
                marked |-> st.marked,
                pre_leads |-> leads, n_before |-> Len(activities)]
    /\ UNCHANGED procs

\* ------------------------------------------------------------ requests
\* the lead ids a request may name: those in the store and one that is not
LeadIds == 1..(Len(leads) + 1)

LeadCreateInputs ==
    [status : LeadStatus, email : LeadEmails,
     phone_number : {<<n>> : n \in Numbers}, lead_source : {"manual"}]
    \cup
    [status : {"new"}, email : LeadEmails,
     phone_number : {NonePhone}, lead_source : {"manual"}]

\* POST /leads/
router_create_lead(st, lead) ==
    LET s1 == create_lead(st, lead)
    IN  IF s1.exc # NoExc THEN s1
        ELSE [s1 EXCEPT !.ret = [status |-> "success", data |-> s1.ret]]

PostLead ==
    /\ nreq < MaxRequests
    /\ Len(leads) < MaxLeads
    /\ \E lead \in LeadCreateInputs, fail \in 0..MaxFail :
          Finish("create_lead", router_create_lead(Begin(fail), lead), lead)

\* POST /leads/{lead_id}/activities
ManualTypes == {"email_received", "status_changed", "lead_created"}

create_activity(st, lead_id, activity) ==
    LET activity_data == [lead_id |-> lead_id, activity_type |-> activity.activity_type,
                          body |-> activity.body]
        s1 == log_activity(st, activity_data)
    IN  IF s1.exc # NoExc THEN s1
        ELSE [s1 EXCEPT !.ret = [status |-> "success", data |-> activity_data]]

PostActivity ==
    /\ nreq < MaxRequests
    /\ \E lead_id \in LeadIds, t \in ManualTypes, fail \in 0..MaxFail :
          LET activity == [activity_type |-> t, body |-> <<"note">>]
          IN  Finish("create_activity",
                     [create_activity(Begin(fail), lead_id, activity) EXCEPT !.lead_id = lead_id],
                     [lead_id |-> lead_id, activity |-> activity])

\* a vendor round trip that is tried a second time when the first one raises
dispatch_retry(st) ==
    IF st.exc # NoExc THEN st
    ELSE IF Raises(st)
    THEN [st EXCEPT !.n = @ + 2, !.faulted = TRUE, !.dispatched = @ + 2,
                    !.ret = [status |-> "success"]]
    ELSE [Done(st) EXCEPT !.dispatched = @ + 1, !.ret = [status |-> "success"]]

\* the vendor round trip of CallService.make_call, EmailService.send_email and
\* WhatsAppSender.send_message: it returns a result or raises
dispatch(st) ==
    IF st.exc # NoExc THEN st
    ELSE IF Raises(st) THEN [Fault(st) EXCEPT !.dispatched = @ + 1]
    ELSE [Done(st) EXCEPT !.dispatched = @ + 1, !.ret = [status |-> "success"]]

\* the handler that dispatches first and marks the lead contacted afterwards
make_call_to_lead_dispatch_first(st, lead_id) ==
    LET s1 == get_lead(st, lead_id)
    IN  IF s1.exc # NoExc THEN s1
        ELSE IF Falsy(s1.ret.phone_number) THEN Raise(s1, "HTTP400")
        ELSE LET s2 == dispatch(s1)
                 s3 == mark_as_contacted(s2, lead_id)
                 s4 == log_activity(s3, [lead_id |-> lead_id, activity_type |-> "call_made",
                                         body |-> <<"Automated call initiated:", "en", "nat">>])
             IN  IF s4.exc # NoExc THEN s4
                 ELSE [s4 EXCEPT !.ret = [status |-> "success", data |-> s2.ret]]

\* the handler without the contacted transition (as the one of app/main.py)
make_call_to_lead_nomark(st, lead_id) ==
    LET s1 == get_lead(st, lead_id)
    IN  IF s1.exc # NoExc THEN s1
        ELSE IF Falsy(s1.ret.phone_number) THEN Raise(s1, "HTTP400")
        ELSE LET s3 == dispatch(s1)
                 s4 == log_activity(s3, [lead_id |-> lead_id, activity_type |-> "call_made",
                                         body |-> <<"Automated call initiated:", "en", "nat">>])
             IN  IF s4.exc # NoExc THEN s4
                 ELSE [s4 EXCEPT !.ret = [status |-> "success", data |-> s3.ret]]

\* POST /leads/{lead_id}/call
make_call_to_lead(st, lead_id) ==
    LET s1 == get_lead(st, lead_id)
    IN  IF s1.exc # NoExc THEN s1
        ELSE IF Falsy(s1.ret.phone_number) THEN Raise(s1, "HTTP400")
        ELSE LET s2 == mark_as_contacted(s1, lead_id)
                 s3 == dispatch(s2)
                 s4 == log_activity(s3, [lead_id |-> lead_id, activity_type |-> "call_made",
                                         body |-> <<"Automated call initiated:", "en", "nat">>])
             IN  IF s4.exc # NoExc THEN s4
                 ELSE [s4 EXCEPT !.ret = [status |-> "success", data |-> s3.ret]]

\* POST /leads/{lead_id}/send-email
send_email_to_lead(st, lead_id) ==
    LET s1 == get_lead(st, lead_id)
    IN  IF s1.exc # NoExc THEN s1
        ELSE IF s1.ret.email = NoValue THEN Raise(s1, "HTTP400")
        ELSE LET s2 == mark_as_contacted(s1, lead_id)
                 s3 == dispatch(s2)
                 s4 == log_activity(s3, [lead_id |-> lead_id, activity_type |-> "email_sent",
                                         body |-> <<"Email sent: ", "subject">>])
             IN  IF s4.exc # NoExc THEN s4
                 ELSE [s4 EXCEPT !.ret = [status |-> "success", data |-> s3.ret]]

\* POST /leads/{lead_id}/send-whatsapp
send_whatsapp_to_lead(st, lead_id, message) ==
    LET s1 == get_lead(st, lead_id)
    IN  IF s1.exc # NoExc THEN s1
        ELSE IF Falsy(s1.ret.phone_number) THEN Raise(s1, "HTTP400")
        ELSE LET s2 == mark_as_contacted(s1, lead_id)
                 s3 == dispatch(s2)
                 s4 == log_activity(s3, [lead_id |-> lead_id,
                                         activity_type |-> "whatsapp_message",
                                         body |-> <<"WhatsApp message sent: ", message>>])
             IN  IF s4.exc # NoExc THEN s4
                 ELSE [s4 EXCEPT !.ret = [status |-> "success", data |-> s3.ret]]

PostCall ==
    /\ nreq < MaxRequests
    /\ \E lead_id \in LeadIds, fail \in 0..MaxFail :
          Finish("make_call_to_lead",
                 [make_call_to_lead(Begin(fail), lead_id) EXCEPT !.lead_id = lead_id],
                 [lead_id |-> lead_id])

PostSendEmail ==
    /\ nreq < MaxRequests
    /\ \E lead_id \in LeadIds, fail \in 0..MaxFail :
          Finish("send_email_to_lead",
                 [send_email_to_lead(Begin(fail), lead_id) EXCEPT !.lead_id = lead_id],
                 [lead_id |-> lead_id])

PostSendWhatsapp ==
    /\ nreq < MaxRequests
    /\ \E lead_id \in LeadIds, message \in Texts, fail \in 0..MaxFail :
          Finish("send_whatsapp_to_lead",
                 [send_whatsapp_to_lead(Begin(fail), lead_id, message) EXCEPT !.lead_id = lead_id],
                 [lead_id |-> lead_id])

\* GET /leads/{lead_id}.  get_lead returns a lead or raises, so the handler's
\* own `if not lead' test never fires.
router_get_lead(st, lead_id) ==
    LET s1 == get_lead(st, lead_id)
    IN  IF s1.exc # NoExc THEN s1
        ELSE [s1 EXCEPT !.ret = [status |-> "success", data |-> s1.ret]]

GetLead ==
    /\ nreq < MaxRequests
    /\ \E lead_id \in LeadIds, fail \in 0..MaxFail :
          Finish("get_lead",
                 [router_get_lead(Begin(fail), lead_id) EXCEPT !.lead_id = lead_id],
                 [lead_id |-> lead_id])

\* a direct call of LeadService.mark_as_contacted
CallMarkAsContacted ==
    /\ nreq < MaxRequests
    /\ \E lead_id \in LeadIds, fail \in 0..MaxFail :
          Finish("mark_as_contacted",
                 [mark_as_contacted(Begin(fail), lead_id) EXCEPT !.lead_id = lead_id],
                 [lead_id |-> lead_id])

\* pydantic LeadCreate(**d): first_name, last_name and email are required,
\* status defaults to new, lead_source to manual, unknown keys are dropped
LeadCreateValid(d) == "email" \in DOMAIN d /\ d.email # NoValue

\* LeadCreate without the default of the status field
LeadCreate_nodefault(d) ==
    [status |-> Get(d, "status"), email |-> d.email,
     phone_number |-> GetD(d, "phone_number", NonePhone),
     lead_source |-> GetD(d, "lead_source", "manual")]

LeadCreate(d) ==
    [status |-> GetD(d, "status", "new"), email |-> d.email,
     phone_number |-> GetD(d, "phone_number", NonePhone),
     lead_source |-> GetD(d, "lead_source", "manual")]

\* ------------------------------------------------------ CalendlyService
\* get_leads_by_email without the eq("email", ...) filter
get_leads_by_email_all(st, email) ==
    IF st.exc # NoExc THEN st
    ELSE IF Raises(st) THEN Fault(st)
    ELSE [Done(st) EXCEPT !.ret = DOMAIN st.leads]

get_leads_by_email(st, email) ==
    IF st.exc # NoExc THEN st
    ELSE IF Raises(st) THEN Fault(st)
    ELSE [Done(st) EXCEPT !.ret = {i \in DOMAIN st.leads : st.leads[i].email = email}]

\* the branch on the event name with a cancellation that also resets the status
handle_event_cancel_resets(st, lead, event_type, payload_data) ==
    IF event_type = "invitee.created"
    THEN log_activity(
           update_lead_status(st, lead.id, "qualified"),
           [lead_id |-> lead.id,
            activity_type |-> "meeting_scheduled",
            body |-> <<"Meeting scheduled:",
                       Get(payload_data, "start_time"),
                       Get(payload_data, "end_time"),
                       Get(GetD(payload_data, "event_type", <<>>), "name")>>])
    ELSE IF event_type = "invitee.canceled"
    THEN log_activity(
           update_lead_status(st, lead.id, "contacted"),
           [lead_id |-> lead.id,
            activity_type |-> "meeting_canceled",
            body |-> <<"Meeting canceled: ",
                       GetD(payload_data, "cancel_reason", "No reason provided")>>])
    ELSE st

\* handle_event with a last branch that logs every other event as rescheduled
handle_event_other_logs(st, lead, event_type, payload_data) ==
    IF event_type = "invitee.created"
    THEN log_activity(
           update_lead_status(st, lead.id, "qualified"),
           [lead_id |-> lead.id,
            activity_type |-> "meeting_scheduled",
            body |-> <<"Meeting scheduled:",
                       Get(payload_data, "start_time"),
                       Get(payload_data, "end_time"),
                       Get(GetD(payload_data, "event_type", <<>>), "name")>>])
    ELSE IF event_type = "invitee.canceled"
    THEN log_activity(st,
           [lead_id |-> lead.id,
            activity_type |-> "meeting_canceled",
            body |-> <<"Meeting canceled: ",
                       GetD(payload_data, "cancel_reason", "No reason provided")>>])
    ELSE log_activity(st,
           [lead_id |-> lead.id,
            activity_type |-> "meeting_rescheduled",
            body |-> <<"Meeting rescheduled">>])

\* the branch on the event name of handle_webhook, for the lead it resolved
\* handle_event that removes the lead when its meeting is canceled
handle_event_cancel_deletes(st, lead, event_type, payload_data) ==
    IF event_type = "invitee.canceled"
    THEN [Done(st) EXCEPT !.leads = SelectSeq(@, LAMBDA l : l.id # lead.id)]
    ELSE st

handle_event(st, lead, event_type, payload_data) ==
    IF event_type = "invitee.created"
    THEN log_activity(
           update_lead_status(st, lead.id, "qualified"),
           [lead_id |-> lead.id,
            activity_type |-> "meeting_scheduled",
            body |-> <<"Meeting scheduled:",
                       Get(payload_data, "start_time"),
                       Get(payload_data, "end_time"),
                       Get(GetD(payload_data, "event_type", <<>>), "name")>>])
    ELSE IF event_type = "invitee.canceled"
    THEN log_activity(st,
           [lead_id |-> lead.id,
            activity_type |-> "meeting_canceled",
            body |-> <<"Meeting canceled: ",
                       GetD(payload_data, "cancel_reason", "No reason provided")>>])
    ELSE st

\* handle_webhook without the test of the invitee email: the lookup runs
\* with the missing email and finds no lead
handle_webhook_noemailtest(st, payload, ord) ==
    LET event_type == Get(payload, "event")
        payload_data ==
            IF "email" \in DOMAIN payload
            THEN [email |-> Get(payload, "email"),
                  start_time |-> Get(payload, "start_time"),
                  end_time |-> Get(payload, "end_time"),
                  event_type |-> [name |-> Get(payload, "name")]]
            ELSE GetD(payload, "payload", <<>>)
        invitee_email == Get(payload_data, "email")
        s1 == get_leads_by_email(st, invitee_email)
    IN  IF s1.exc # NoExc THEN s1
        ELSE IF s1.ret = {}
        THEN [s1 EXCEPT !.ret = [status |-> "warning", message |-> "No lead found"]]
        ELSE LET lead == s1.leads[First(s1.ret, ord)]
                 s2 == [s1 EXCEPT !.lead_id = lead.id]
                 s3 == handle_event(s2, lead, event_type, payload_data)
             IN  IF s3.exc # NoExc THEN s3
                 ELSE [s3 EXCEPT !.ret = [status |-> "success",
                                          message |-> <<"Processed ", event_type>>]]

\* handle_webhook that acts on a second matching lead as well as on leads[0]
handle_webhook_second(st, payload, ord) ==
    LET event_type == Get(payload, "event")
        payload_data ==
            IF "email" \in DOMAIN payload
            THEN [email |-> Get(payload, "email"),
                  start_time |-> Get(payload, "start_time"),
                  end_time |-> Get(payload, "end_time"),
                  event_type |-> [name |-> Get(payload, "name")]]
            ELSE GetD(payload, "payload", <<>>)
        invitee_email == Get(payload_data, "email")
    IN  IF invitee_email = NoValue THEN Raise(st, "ValueError")
        ELSE LET s1 == get_leads_by_email(st, invitee_email)
             IN  IF s1.exc # NoExc THEN s1
                 ELSE IF s1.ret = {}
                 THEN [s1 EXCEPT !.ret = [status |-> "warning", message |-> "No lead found"]]
                 ELSE LET lead == s1.leads[First(s1.ret, ord)]
                          others == s1.ret \ {lead.id}
                          s2 == [s1 EXCEPT !.lead_id = lead.id]
                          s3 == handle_event(s2, lead, event_type, payload_data)
                          s4 == IF others = {} \/ s3.exc # NoExc THEN s3
                                ELSE handle_event(s3, s1.leads[CHOOSE j \in others : TRUE],
                                                  event_type, payload_data)
                      IN  IF s4.exc # NoExc THEN s4
                          ELSE [s4 EXCEPT !.ret = [status |-> "success",
                                                   message |-> <<"Processed ", event_type>>]]

handle_webhook(st, payload, ord) ==
    LET event_type == Get(payload, "event")
        payload_data ==
            IF "email" \in DOMAIN payload
            THEN [email |-> Get(payload, "email"),
                  start_time |-> Get(payload, "start_time"),
                  end_time |-> Get(payload, "end_time"),
                  event_type |-> [name |-> Get(payload, "name")]]
            ELSE GetD(payload, "payload", <<>>)
        invitee_email == Get(payload_data, "email")
    IN  IF invitee_email = NoValue THEN Raise(st, "ValueError")
        ELSE LET s1 == get_leads_by_email(st, invitee_email)
             IN  IF s1.exc # NoExc THEN s1
                 ELSE IF s1.ret = {}
                 THEN [s1 EXCEPT !.ret = [status |-> "warning", message |-> "No lead found"]]
                 ELSE LET lead == s1.leads[First(s1.ret, ord)]
                          s2 == [s1 EXCEPT !.lead_id = lead.id]
                          s3 == handle_event(s2, lead, event_type, payload_data)
                      IN  IF s3.exc # NoExc THEN s3
                          ELSE [s3 EXCEPT !.ret = [status |-> "success",
                                                   message |-> <<"Processed ", event_type>>]]

CalendlyEvents == {"invitee.created", "invitee.canceled", "invitee.rescheduled"}

CalendlyPayloads ==
    {[event |-> e, email |-> m, start_time |-> "09:00", end_time |-> "09:30",
      name |-> "Demo"] : e \in CalendlyEvents, m \in Emails}
    \cup
    {[event |-> e, payload |-> [email |-> m, start_time |-> "09:00",
                                end_time |-> "09:30",
                                event_type |-> [name |-> "Demo"]]] :
        e \in CalendlyEvents, m \in Emails}
    \cup
    {[event |-> e, payload |-> [start_time |-> "09:00"]] : e \in CalendlyEvents}
    \cup
    \* a cancellation that says why, in either shape
    {[event |-> "invitee.canceled", email |-> m, start_time |-> "09:00",
      end_time |-> "09:30", name |-> "Demo", cancel_reason |-> "busy"] : m \in LeadEmails}
    \cup
    {[event |-> "invitee.canceled",
      payload |-> [email |-> m, start_time |-> "09:00", end_time |-> "09:30",
                   event_type |-> [name |-> "Demo"], cancel_reason |-> "busy"]] :
        m \in LeadEmails}
    \cup
    \* a payload without an event name
    {[email |-> m, start_time |-> "09:00", end_time |-> "09:30", name |-> "Demo"] :
        m \in LeadEmails}

\* the invitee email a payload carries, flat or nested
PayloadEmail(payload) ==
    IF "email" \in DOMAIN payload THEN payload.email
    ELSE Get(GetD(payload, "payload", <<>>), "email")

\* POST /leads/calendly/webhook
CalendlyWebhook ==
    /\ nreq < MaxRequests
    /\ \E payload \in CalendlyPayloads, fail \in 0..MaxFail :
       \E ord \in Orders({i \in DOMAIN leads : leads[i].email = PayloadEmail(payload)}) :
          Finish("calendly_webhook", handle_webhook(Begin(fail), payload, ord),
                 [event |-> Get(payload, "event"), email |-> PayloadEmail(payload)])

\* ---------------------------------------------------- WhatsAppProcessor
get_leads(st) ==
    IF st.exc # NoExc THEN st
    ELSE IF Raises(st) THEN Fault(st)
    ELSE [Done(st) EXCEPT !.ret = st.leads]

find_lead_by_phone(st, phone_number, ord) ==
    LET s1 == get_leads(st)
    IN  IF s1.exc # NoExc THEN s1
        ELSE LET matches == {i \in DOMAIN s1.ret : s1.ret[i].phone_number = phone_number}
             IN  [s1 EXCEPT !.ret = IF matches = {} THEN NoLead ELSE First(matches, ord)]

\* _log_message_activity that also marks the lead as contacted
log_message_activity_marks(st, lead_id, message) ==
    LET s1 == log_activity(st, [lead_id |-> lead_id, activity_type |-> "whatsapp_message",
                                body |-> <<"WhatsApp message received: ", message>>])
    IN  mark_as_contacted(s1, lead_id)

\* _log_message_activity that skips a message the log already holds for the lead
log_message_activity_dedup(st, lead_id, message) ==
    LET activity_data == [lead_id |-> lead_id, activity_type |-> "whatsapp_message",
                          body |-> <<"WhatsApp message received: ", message>>]
    IN  IF \E k \in DOMAIN st.acts : st.acts[k] = activity_data THEN st
        ELSE log_activity(st, activity_data)

log_message_activity(st, lead_id, message) ==
    log_activity(st, [lead_id |-> lead_id, activity_type |-> "whatsapp_message",
                      body |-> <<"WhatsApp message received: ", message>>])

\* what _extract_lead_info hands back: the model's JSON, or the two default
\* names when the model call or the parse raised
ExtractedInfos ==
    {[first_name |-> "Unknown", last_name |-> "Unknown"]}
    \cup {[first_name |-> "Ann", last_name |-> "Lee", email |-> m] : m \in LeadEmails}

\* handle_incoming_webhook that compares the From value as received, with its
\* channel prefix
handle_incoming_webhook_nostrip(st, webhook_data, info, ord) ==
    LET from_number == GetD(webhook_data, "From", <<>>)
        message_body == GetD(webhook_data, "Body", "")
        s1 == find_lead_by_phone(st, from_number, ord)
        s4 == IF s1.exc # NoExc THEN s1
              ELSE IF s1.ret # NoLead
              THEN log_message_activity([s1 EXCEPT !.lead_id = s1.ret], s1.ret, message_body)
              ELSE LET lead_info == [k \in DOMAIN info \cup {"phone_number", "lead_source"} |->
                                        IF k = "phone_number" THEN from_number
                                        ELSE IF k = "lead_source" THEN "whatsapp"
                                        ELSE info[k]]
                   IN  IF ~LeadCreateValid(lead_info) THEN Raise(s1, "ValidationError")
                       ELSE LET s2 == create_lead(s1, LeadCreate(lead_info))
                            IN  IF s2.exc # NoExc THEN s2
                                ELSE log_message_activity([s2 EXCEPT !.lead_id = s2.ret.id],
                                                          s2.ret.id, message_body)
    IN  IF s4.exc # NoExc THEN s4
        ELSE [s4 EXCEPT !.ret = [status |-> "success",
                                 message |-> "Processed incoming message"]]

handle_incoming_webhook(st, webhook_data, info, ord) ==
    LET from_number == StripWhatsapp(GetD(webhook_data, "From", <<>>))
        message_body == GetD(webhook_data, "Body", "")
        s1 == find_lead_by_phone(st, from_number, ord)
        s4 == IF s1.exc # NoExc THEN s1
              ELSE IF s1.ret # NoLead
              THEN log_message_activity([s1 EXCEPT !.lead_id = s1.ret], s1.ret, message_body)
              ELSE LET lead_info == [k \in DOMAIN info \cup {"phone_number", "lead_source"} |->
                                        IF k = "phone_number" THEN from_number
                                        ELSE IF k = "lead_source" THEN "whatsapp"
                                        ELSE info[k]]
                   IN  IF ~LeadCreateValid(lead_info) THEN Raise(s1, "ValidationError")
                       ELSE LET s2 == create_lead(s1, LeadCreate(lead_info))
                            IN  IF s2.exc # NoExc THEN s2
                                ELSE log_message_activity([s2 EXCEPT !.lead_id = s2.ret.id],
                                                          s2.ret.id, message_body)
    IN  IF s4.exc # NoExc THEN s4
        ELSE [s4 EXCEPT !.ret = [status |-> "success",
                                 message |-> "Processed incoming message"]]

WhatsappForms ==
    {[From |-> <<"whatsapp:", n>>, Body |-> t, MessageSid |-> "SM1"] :
        n \in Numbers, t \in Texts}

\* POST /leads/whatsapp/webhook
WhatsappWebhook ==
    /\ nreq < MaxRequests
    /\ \E form \in WhatsappForms, info \in ExtractedInfos, fail \in 0..MaxFail :
       \E ord \in Orders({i \in DOMAIN leads :
                             leads[i].phone_number = StripWhatsapp(form.From)}) :
          Finish("whatsapp_webhook", handle_incoming_webhook(Begin(fail), form, info, ord),
                 [From |-> form.From, Body |-> form.Body, email |-> Get(info, "email")])

\* ----------------------------------------------------------- CallService
\* POST {base_url}/calls/{call_id}/analyze, then the reshaping of the raw
\* answers list into a dict keyed by question name
analyze_call(st, raw_answers) ==
    IF st.exc # NoExc THEN st
    ELSE IF Raises(st) THEN Fault(st)
    ELSE [Done(st) EXCEPT !.ret =
            [status |-> "success",
             answers |-> [kind |-> "dict",
                          items |-> [interested_in_demo |-> raw_answers[1],
                                     objections |-> raw_answers[2],
                                     timeline |-> raw_answers[3],
                                     sentiment |-> raw_answers[4],
                                     next_steps |-> raw_answers[5]]],
             credits_used |-> 0]]

RawAnswers == {<<"true", "price", "Q3", "positive", "demo">>}

\* the handler without the try/except around the analysis block
call_webhook_noswallow(st, data) ==
    LET status == Get(data, "status")
        transcript == Get(data, "concatenated_transcript")
        metadata == GetD(data, "metadata", <<>>)
        lead_id == GetD(metadata, "lead_id", NoLead)
    IN  IF lead_id = NoLead THEN Raise(st, "HTTP400")
        ELSE LET s1 == log_activity([st EXCEPT !.lead_id = lead_id],
                          [lead_id |-> lead_id, activity_type |-> "call_completed",
                           body |-> <<"Call completed:", status,
                                      IF transcript # NoValue THEN transcript
                                      ELSE "No transcript available">>])
                 s2 == IF s1.exc = NoExc /\ status = "completed" /\ transcript # NoValue
                       THEN LET a1 == analyze_call(s1, data.analysis)
                                \* analysis['answers'][0] .. [4]: an integer
                                \* subscript, a KeyError on a dict of names
                                a2 == IF a1.exc # NoExc THEN a1
                                      ELSE IF a1.ret.answers.kind # "list"
                                      THEN Raise(a1, "KeyError")
                                      ELSE log_activity(a1,
                                             [lead_id |-> lead_id,
                                              activity_type |-> "call_analyzed",
                                              body |-> <<"Call Analysis Summary",
                                                         a1.ret.answers.items[1]>>])
                            IN  a2
                       ELSE s1
             IN  IF s2.exc # NoExc THEN s2
                 ELSE [s2 EXCEPT !.ret = [status |-> "success"]]

\* POST /leads/call/webhook
call_webhook(st, data) ==
    LET status == Get(data, "status")
        transcript == Get(data, "concatenated_transcript")
        metadata == GetD(data, "metadata", <<>>)
        lead_id == GetD(metadata, "lead_id", NoLead)
    IN  IF lead_id = NoLead THEN Raise(st, "HTTP400")
        ELSE LET s1 == log_activity([st EXCEPT !.lead_id = lead_id],
                          [lead_id |-> lead_id, activity_type |-> "call_completed",
                           body |-> <<"Call completed:", status,
                                      IF transcript # NoValue THEN transcript
                                      ELSE "No transcript available">>])
                 s2 == IF s1.exc = NoExc /\ status = "completed" /\ transcript # NoValue
                       THEN LET a1 == analyze_call(s1, data.analysis)
                                \* analysis['answers'][0] .. [4]: an integer
                                \* subscript, a KeyError on a dict of names
                                a2 == IF a1.exc # NoExc THEN a1
                                      ELSE IF a1.ret.answers.kind # "list"
                                      THEN Raise(a1, "KeyError")
                                      ELSE log_activity(a1,
                                             [lead_id |-> lead_id,
                                              activity_type |-> "call_analyzed",
                                              body |-> <<"Call Analysis Summary",
                                                         a1.ret.answers.items[1]>>])
                            \* except Exception: logged, not raised
                            IN  [a2 EXCEPT !.exc = NoExc]
                       ELSE s1
             IN  IF s2.exc # NoExc THEN s2
                 ELSE [s2 EXCEPT !.ret = [status |-> "success"]]

CallWebhookData ==
    {[call_id |-> "c1", status |-> s, concatenated_transcript |-> t,
      metadata |-> [lead_id |-> l], analysis |-> a] :
        s \in {"completed", "no-answer"}, t \in {NoValue, "hello"},
        l \in LeadIds, a \in RawAnswers}
    \cup
    {[call_id |-> "c1", status |-> s, concatenated_transcript |-> t,
      metadata |-> [first_name |-> "Ann"], analysis |-> a] :
        s \in {"completed", "no-answer"}, t \in {NoValue, "hello"}, a \in RawAnswers}

CallWebhook ==
    /\ nreq < MaxRequests
    /\ \E data \in CallWebhookData, fail \in 0..MaxFail :
          Finish("call_webhook", call_webhook(Begin(fail), data),
                 [lead_id |-> GetD(data.metadata, "lead_id", NoLead),
                  status |-> data.status, transcript |-> data.concatenated_transcript])

\* -------------------------------------------------------- routers/meta.py
\* the attributes the Meta handlers look up on ActivityType and LeadService
LeadServiceMethods == {"create_lead", "get_leads", "get_lead", "log_activity",
                       "update_lead_status", "get_leads_by_email", "mark_as_contacted"}

\* how the Graph API profile request of get_user_info ends
MetaLookups == {"ok", "no_token", "non200", "exception"}

\* get_user_info: the profile of the sender, or the placeholder names when
\* there is no token, the answer is not a 200 or the request raised
get_user_info(lookup, platform) ==
    LET default_info == [first_name |-> platform, last_name |-> "User"]
    IN  IF lookup # "ok" THEN default_info
        ELSE IF platform = "Instagram"
        THEN [first_name |-> "ann_ig", last_name |-> "Instagram"]
        ELSE [first_name |-> "Ann", last_name |-> "Lee"]

\* f"{sender_id}@placeholder.com"
PlaceholderEmail(sender_id) ==
    IF sender_id = "psid1" THEN "psid1@placeholder.com" ELSE "sender@placeholder.com"

\* platform_name.lower()
Lower(platform_name) ==
    IF platform_name = "Instagram" THEN "instagram" ELSE "facebook messenger"

\* process_message: the lookup by meta id is an attribute LeadService does not
\* have.  LeadCreate has no meta_id field, so no lead would carry one: past
\* the lookup the sender is always new.
process_message(st, sender_id, message_text, platform_name, activity_type, lookup) ==
    IF st.exc # NoExc THEN st
    ELSE IF sender_id = NoValue THEN st
    ELSE IF "get_leads_by_meta_id" \notin LeadServiceMethods
    THEN Raise(st, "AttributeError")
    ELSE LET user_info == get_user_info(lookup, platform_name)
             lead_data == [first_name |-> GetD(user_info, "first_name", platform_name),
                           last_name |-> GetD(user_info, "last_name", "User"),
                           email |-> PlaceholderEmail(sender_id),
                           lead_source |-> Lower(platform_name)]
             s1 == create_lead(st, LeadCreate(lead_data))
         IN  IF s1.exc # NoExc THEN s1
             ELSE log_activity([s1 EXCEPT !.lead_id = s1.ret.id],
                               [lead_id |-> s1.ret.id, activity_type |-> activity_type,
                                body |-> <<"First ", platform_name,
                                           " message received: ", message_text>>])

\* handle_messenger_message / handle_instagram_message(_with_messaging): every
\* message event evaluates ActivityType.MESSENGER_MESSAGE, then process_message
RECURSIVE handle_messages(_, _, _, _)
handle_messages(st, events, platform_name, lookup) ==
    IF st.exc # NoExc \/ events = <<>> THEN st
    ELSE IF "messenger_message" \notin ActivityType THEN Raise(st, "AttributeError")
    ELSE handle_messages(process_message(st, Head(events).sender, Head(events).text,
                                         platform_name, "messenger_message", lookup),
                         Tail(events), platform_name, lookup)

\* the changes array: an Instagram change goes to handle_instagram_message,
\* any other change (WhatsApp) is written to the application log only
handle_changes_message(st, entry, object_type, lookup) ==
    IF st.exc # NoExc THEN st
    ELSE IF object_type = "instagram" \/ entry.field = "instagram_messages"
         THEN handle_messages(st, entry.events, "Instagram", lookup)
         ELSE st

receive_webhook(st, body, lookup) ==
    LET object_type == GetD(body, "object", "")
        entry == body.entry
        s1 == IF object_type = "instagram"
              THEN IF entry.shape = "messaging"
                   THEN handle_messages(st, entry.events, "Instagram", lookup)
                   ELSE IF entry.shape = "changes"
                   THEN handle_changes_message(st, entry, object_type, lookup)
                   ELSE st
              ELSE IF entry.shape = "messaging"
              THEN handle_messages(st, entry.events, "Facebook Messenger", lookup)
              ELSE IF entry.shape = "changes"
              THEN handle_changes_message(st, entry, object_type, lookup)
              ELSE st
    \* except Exception: return {"status": "error"}, still a 200
    IN  IF s1.exc # NoExc
        THEN [s1 EXCEPT !.exc = NoExc, !.ret = [status |-> "error"]]
        ELSE [s1 EXCEPT !.ret = [status |-> "success"]]

MetaSenders == {"psid1"}

\* the object of a payload and the array its entry carries: Messenger sends a
\* page object with a messaging array, Instagram either array, the WhatsApp
\* Graph API a changes array; a page entry with neither array is the unknown
\* format
MetaShapes ==
    {<<"page", "messaging">>, <<"page", "other">>,
     <<"instagram", "messaging">>, <<"instagram", "changes">>,
     <<"whatsapp_business_account", "changes">>}

MetaBodies ==
    {[object |-> os[1],
      entry |-> [shape |-> os[2], field |-> "messages",
                 events |-> ev]] :
        os \in MetaShapes,
        ev \in {<<>>} \cup {<<[sender |-> p, text |-> t]>> : p \in MetaSenders, t \in Texts}}
    \cup
    \* a Messenger entry whose first event has no sender, alone or followed
    \* by an event that has one
    {[object |-> "page",
      entry |-> [shape |-> "messaging", field |-> "messages", events |-> ev]] :
        ev \in {<<[sender |-> NoValue, text |-> t]>> : t \in Texts}
               \cup {<<[sender |-> NoValue, text |-> t], [sender |-> p, text |-> t]>> :
                        p \in MetaSenders, t \in Texts}}

\* how the profile request ends, for the events of a body: every way for the
\* single event of a Messenger entry, a request that succeeds for the others
MetaLookupsFor(body) ==
    IF /\ body.object = "page"
       /\ body.entry.shape = "messaging"
       /\ Len(body.entry.events) = 1
    THEN MetaLookups ELSE {"ok"}

\* POST /meta/webhook
MetaWebhook ==
    /\ nreq < MaxRequests
    /\ \E body \in MetaBodies, fail \in 0..MaxFail :
       \E lookup \in MetaLookupsFor(body) :
          Finish("meta_webhook", receive_webhook(Begin(fail), body, lookup),
                 [object |-> body.object, shape |-> body.entry.shape,
                  events |-> body.entry.events,
                  lookup |-> IF \A k \in DOMAIN body.entry.events :
                                      body.entry.events[k].sender = NoValue
                             THEN NoValue ELSE lookup])

\* ------------------------------------------------------- EmailProcessor
\* a Gmail round trip (messages.list, messages.get, messages.modify)
gmail(st) ==
    IF st.exc # NoExc THEN st
    ELSE IF Raises(st) THEN Fault(st)
    ELSE Done(st)

\* the loop body that marks the message read before it creates the lead
process_one_email_markfirst(st, sender_email) ==
    LET s1 == gmail(st)
        lead_data == [first_name |-> "Unknown", last_name |-> "Unknown",
                      email |-> sender_email, phone_number |-> NonePhone,
                      lead_source |-> "email"]
        s2 == gmail(s1)
        s3 == IF s2.exc # NoExc THEN s2
              ELSE LET m2 == [s2 EXCEPT !.marked = Append(@, [sender |-> sender_email,
                                                              lead |-> Len(s2.leads) + 1])]
                   IN  IF ~LeadCreateValid(lead_data) THEN Raise(m2, "ValidationError")
                       ELSE create_lead(m2, LeadCreate(lead_data))
    IN  IF s3.exc # NoExc THEN [s3 EXCEPT !.exc = NoExc]
        ELSE [s3 EXCEPT !.dispatched = @ + 1]

\* the body of the for loop of process_new_emails for one unread message
process_one_email(st, sender_email) ==
    LET s1 == gmail(st)
        lead_data == [first_name |-> "Unknown", last_name |-> "Unknown",
                      email |-> sender_email, phone_number |-> NonePhone,
                      lead_source |-> "email"]
        s2 == IF s1.exc # NoExc THEN s1
              ELSE IF ~LeadCreateValid(lead_data) THEN Raise(s1, "ValidationError")
              ELSE create_lead(s1, LeadCreate(lead_data))
        \* messages.modify removes the UNREAD label
        s3 == gmail(s2)
    \* except Exception: continue
    IN  IF s3.exc # NoExc THEN [s3 EXCEPT !.exc = NoExc]
        ELSE [s3 EXCEPT !.marked = Append(@, [sender |-> sender_email, lead |-> s2.ret.id]),
                        !.dispatched = @ + 1]

RECURSIVE process_messages(_, _)
process_messages(st, messages) ==
    IF messages = <<>> THEN st
    ELSE process_messages(process_one_email(st, Head(messages)), Tail(messages))

process_new_emails(st, messages) ==
    LET s1 == gmail(st)
    IN  IF s1.exc # NoExc THEN s1
        ELSE IF messages = <<>>
        THEN [s1 EXCEPT !.ret = [status |-> "success", message |-> <<"No new emails to process">>]]
        ELSE LET s2 == process_messages(s1, messages)
             IN  [s2 EXCEPT !.ret = [status |-> "success",
                                     message |-> <<"Processed", s2.dispatched, "emails">>]]

\* what messages.list returns: the senders of the unread messages
Inboxes == {<<>>} \cup {<<m>> : m \in Emails}
           \cup {<<m1, m2>> : m1 \in LeadEmails, m2 \in Emails \ LeadEmails}

\* POST /leads/process-emails
ProcessEmails ==
    /\ nreq < MaxRequests
    /\ \E messages \in Inboxes, fail \in 0..MaxFail :
          Finish("process_emails", process_new_emails(Begin(fail), messages), messages)

\* The store outlives the process.  At start it is empty, or it holds one
\* lead made earlier through POST /leads/ together with its lead_created record.
InitStores ==
    {Begin0} \cup {create_lead(Begin0, lead) : lead \in LeadCreateInputs}

Init ==
    /\ \E st \in InitStores :
          /\ leads = st.leads
          /\ activities = st.acts
          /\ origin = [i \in DOMAIN st.leads |-> "create_lead"]
          /\ hist = [ntrans |-> [i \in DOMAIN st.leads |-> 0],
                     appendfail |-> FALSE, manual |-> FALSE]
    /\ nreq = 0
    /\ last = [op |-> "init", args |-> NoValue, resp |-> [code |-> 0, outcome |-> NoValue],
               exc |-> NoExc, faulted |-> FALSE, writes |-> <<>>, scfail |-> FALSE,
               dispatched |-> 0, lead_id |-> NoLead, logfail |-> FALSE,
               marked |-> <<>>,
               pre_leads |-> <<>>, n_before |-> 0]
    /\ procs = <<>>

Next ==
    \/ PostLead
    \/ PostActivity
    \/ PostCall
    \/ PostSendEmail
    \/ PostSendWhatsapp
    \/ GetLead
    \/ CallMarkAsContacted
    \/ CalendlyWebhook
    \/ WhatsappWebhook
    \/ CallWebhook
    \/ MetaWebhook
    \/ ProcessEmails

Spec == Init /\ [][Next]_vars

\* ------------------------------------------------- overlapping requests
\* The store is a remote service shared by every instance of the application
\* (api/index.py is the entry point of a serverless deployment).  No lock and
\* no transaction spans the store round trips of a request, so round trips of
\* another request can run between them.  Here each request advances one
\* round trip at a time.
Procs == 1..MaxProcs

Idle ==
    [kind |-> "none", pc |-> "idle", lead_id |-> NoLead, From |-> <<>>,
     missed |-> FALSE, status |-> NoValue]

\* the lead a WhatsApp delivery creates for a sender it did not find
WhatsappLead(From) ==
    LeadCreate([first_name |-> "Ann", last_name |-> "Lee",
                email |-> CHOOSE m \in LeadEmails : TRUE,
                phone_number |-> StripWhatsapp(From), lead_source |-> "whatsapp"])

\* a leads insert that the store refuses when the phone number is taken
insert_lead_unique(ls, lead) ==
    IF \E i \in DOMAIN ls : ls[i].phone_number = lead.phone_number THEN ls
    ELSE Append(ls, [id |-> Len(ls) + 1, status |-> lead.status, email |-> lead.email,
                     phone_number |-> lead.phone_number,
                     lead_source |-> lead.lead_source])

\* table("leads").insert(lead_data) of create_lead
insert_lead(ls, lead) ==
    Append(ls, [id |-> Len(ls) + 1, status |-> lead.status, email |-> lead.email,
                phone_number |-> lead.phone_number,
                lead_source |-> lead.lead_source])

\* _find_lead_by_phone of an inbound WhatsApp delivery
ConcFindLeadByPhone(p) ==
    /\ procs[p].pc = "idle"
    /\ \E form \in WhatsappForms :
       \E ord \in Orders({i \in DOMAIN leads :
                             leads[i].phone_number = StripWhatsapp(form.From)}) :
          LET s1 == find_lead_by_phone(Begin(0), StripWhatsapp(form.From), ord)
          IN  procs' = [procs EXCEPT ![p] =
                  [kind |-> "whatsapp_webhook",
                   pc |-> IF s1.ret = NoLead THEN "create_lead" ELSE "log_message",
                   lead_id |-> s1.ret, From |-> form.From,
                   missed |-> s1.ret = NoLead, status |-> NoValue]]
    /\ UNCHANGED <<leads, activities, origin, hist, last, nreq>>

\* the leads insert of create_lead, for the sender that was not found
ConcInsertLead(p) ==
    /\ procs[p].pc = "create_lead"
    /\ Len(leads) < MaxLeads
    /\ leads' = insert_lead(leads, WhatsappLead(procs[p].From))
    /\ origin' = IF Len(leads') > Len(leads) THEN Append(origin, "whatsapp_webhook")
                 ELSE origin
    /\ hist' = IF Len(leads') > Len(leads)
               THEN [hist EXCEPT !.ntrans = Append(@, 0)] ELSE hist
    /\ procs' = [procs EXCEPT ![p].pc = "log_created", ![p].lead_id = Len(leads')]
    /\ UNCHANGED <<activities, last, nreq>>

\* the lead_created append of create_lead
ConcLogLeadCreated(p) ==
    /\ procs[p].pc = "log_created"
    /\ activities' = log_activity(Begin(0), [lead_id |-> procs[p].lead_id,
                                             activity_type |-> "lead_created",
                                             body |-> <<"Lead created in system">>]).acts
    /\ procs' = [procs EXCEPT ![p].pc = "log_message"]
    /\ UNCHANGED <<leads, origin, hist, last, nreq>>

\* _log_message_activity, the last round trip of the delivery
ConcLogMessage(p) ==
    /\ procs[p].pc = "log_message"
    /\ \E t \in Texts :
          activities' = log_message_activity(Begin(0), procs[p].lead_id, t).acts
    /\ procs' = [procs EXCEPT ![p].pc = "done"]
    /\ UNCHANGED <<leads, origin, hist, last, nreq>>

\* the get_lead of an outbound handler and its test of the contact field
ConcGetLead(p) ==
    /\ procs[p].pc = "idle"
    /\ \E op \in {"make_call_to_lead", "send_email_to_lead", "send_whatsapp_to_lead"},
          lead_id \in DOMAIN leads :
          LET s1 == get_lead(Begin(0), lead_id)
              missing == IF op = "send_email_to_lead" THEN s1.ret.email = NoValue
                         ELSE Falsy(s1.ret.phone_number)
          IN  procs' = [procs EXCEPT ![p] =
                  [kind |-> op, pc |-> IF missing THEN "done" ELSE "mark_read",
                   lead_id |-> lead_id, From |-> <<>>, missed |-> FALSE,
                   status |-> NoValue]]
    /\ UNCHANGED <<leads, activities, origin, hist, last, nreq>>

\* mark_as_contacted: lead = await self.get_lead(lead_id)
ConcMarkRead(p) ==
    /\ procs[p].pc = "mark_read"
    /\ LET s1 == get_lead(Begin(0), procs[p].lead_id)
       IN  procs' = [procs EXCEPT ![p].status = s1.ret.status,
                                  ![p].pc = IF s1.ret.status = "new" THEN "mark_write"
                                            ELSE "dispatch"]
    /\ UNCHANGED <<leads, activities, origin, hist, last, nreq>>

\* update_lead_status: the update of the status column
ConcMarkWrite(p) ==
    /\ procs[p].pc = "mark_write"
    /\ leads' = [leads EXCEPT ![procs[p].lead_id].status = "contacted"]
    /\ hist' = [hist EXCEPT !.ntrans[procs[p].lead_id] = @ + 1]
    /\ procs' = [procs EXCEPT ![p].pc = "mark_log"]
    /\ UNCHANGED <<activities, origin, last, nreq>>

\* update_lead_status: the append of the status_changed Activity
ConcMarkLog(p) ==
    /\ procs[p].pc = "mark_log"
    /\ activities' = log_activity(Begin(0),
                        [lead_id |-> procs[p].lead_id, activity_type |-> "status_changed",
                         body |-> <<"Lead status changed to ", "contacted">>]).acts
    /\ procs' = [procs EXCEPT ![p].pc = "dispatch"]
    /\ UNCHANGED <<leads, origin, hist, last, nreq>>

\* the Activity an outbound handler appends after its dispatch
OutboundActivity(op, lead_id) ==
    IF op = "make_call_to_lead"
    THEN [lead_id |-> lead_id, activity_type |-> "call_made",
          body |-> <<"Automated call initiated:", "en", "nat">>]
    ELSE IF op = "send_email_to_lead"
    THEN [lead_id |-> lead_id, activity_type |-> "email_sent",
          body |-> <<"Email sent: ", "subject">>]
    ELSE [lead_id |-> lead_id, activity_type |-> "whatsapp_message",
          body |-> <<"WhatsApp message sent: ", CHOOSE t \in Texts : TRUE>>]

\* the dispatch to the vendor and the append that follows it
ConcDispatch(p) ==
    /\ procs[p].pc = "dispatch"
    /\ activities' = log_activity(dispatch(Begin(0)),
                                  OutboundActivity(procs[p].kind, procs[p].lead_id)).acts
    /\ procs' = [procs EXCEPT ![p].pc = "done"]
    /\ UNCHANGED <<leads, origin, hist, last, nreq>>

\* a scheduling webhook with event invitee.created: get_leads_by_email
ConcFindLeadByEmail(p) ==
    /\ procs[p].pc = "idle"
    /\ \E email \in LeadEmails :
       \E ord \in Orders({i \in DOMAIN leads : leads[i].email = email}) :
          LET s1 == get_leads_by_email(Begin(0), email)
          IN  procs' = [procs EXCEPT ![p] =
                  [kind |-> "calendly_webhook",
                   pc |-> IF s1.ret = {} THEN "done" ELSE "qualify_write",
                   lead_id |-> IF s1.ret = {} THEN NoLead ELSE First(s1.ret, ord),
                   From |-> <<>>, missed |-> FALSE, status |-> NoValue]]
    /\ UNCHANGED <<leads, activities, origin, hist, last, nreq>>

\* update_lead_status(lead['id'], QUALIFIED): the update of the status column
ConcQualifyWrite(p) ==
    /\ procs[p].pc = "qualify_write"
    /\ leads' = [leads EXCEPT ![procs[p].lead_id].status = "qualified"]
    /\ hist' = [hist EXCEPT !.ntrans[procs[p].lead_id] = @ + 1]
    /\ procs' = [procs EXCEPT ![p].pc = "qualify_log"]
    /\ UNCHANGED <<activities, origin, last, nreq>>

\* the status_changed append of that update_lead_status
ConcQualifyLog(p) ==
    /\ procs[p].pc = "qualify_log"
    /\ activities' = log_activity(Begin(0),
                        [lead_id |-> procs[p].lead_id, activity_type |-> "status_changed",
                         body |-> <<"Lead status changed to ", "qualified">>]).acts
    /\ procs' = [procs EXCEPT ![p].pc = "meeting_log"]
    /\ UNCHANGED <<leads, origin, hist, last, nreq>>

\* the meeting_scheduled append that ends the scheduling webhook
ConcMeetingLog(p) ==
    /\ procs[p].pc = "meeting_log"
    /\ activities' = log_activity(Begin(0),
                        [lead_id |-> procs[p].lead_id,
                         activity_type |-> "meeting_scheduled",
                         body |-> <<"Meeting scheduled:", "09:00", "09:30", "Demo">>]).acts
    /\ procs' = [procs EXCEPT ![p].pc = "done"]
    /\ UNCHANGED <<leads, origin, hist, last, nreq>>

InitConc ==
    /\ \E st \in InitStores :
          /\ leads = st.leads
          /\ activities = st.acts
          /\ origin = [i \in DOMAIN st.leads |-> "create_lead"]
          /\ hist = [ntrans |-> [i \in DOMAIN st.leads |-> 0],
                     appendfail |-> FALSE, manual |-> FALSE]
    /\ nreq = 0
    /\ last = [op |-> "init", args |-> NoValue, resp |-> [code |-> 0, outcome |-> NoValue],
               exc |-> NoExc, faulted |-> FALSE, writes |-> <<>>, scfail |-> FALSE,
               dispatched |-> 0, lead_id |-> NoLead, logfail |-> FALSE,
               marked |-> <<>>,
               pre_leads |-> <<>>, n_before |-> 0]
    /\ procs = [p \in Procs |-> Idle]

NextConc ==
    \E p \in Procs :
        \/ ConcFindLeadByPhone(p)
        \/ ConcInsertLead(p)
        \/ ConcLogLeadCreated(p)
        \/ ConcLogMessage(p)
        \/ ConcGetLead(p)
        \/ ConcMarkRead(p)
        \/ ConcMarkWrite(p)
        \/ ConcMarkLog(p)
        \/ ConcDispatch(p)
        \/ ConcFindLeadByEmail(p)
        \/ ConcQualifyWrite(p)
        \/ ConcQualifyLog(p)
        \/ ConcMeetingLog(p)

SpecConc == InitConc /\ [][NextConc]_vars

\* ------------------------------------------------- direct service calls
\* a direct call of LeadService.update_lead_status, the way the transitions
\* outside the state machine (customer, disqualified, remarket) are applied
CallUpdateLeadStatus ==
    /\ nreq < MaxRequests
    /\ \E lead_id \in LeadIds, new_status \in LeadStatus, fail \in 0..MaxFail :
          Finish("update_lead_status",
                 [update_lead_status(Begin(fail), lead_id, new_status)
                     EXCEPT !.lead_id = lead_id],
                 [lead_id |-> lead_id, new_status |-> new_status])

NextService ==
    \/ PostLead
    \/ CallUpdateLeadStatus

SpecService == Init /\ [][NextService]_vars

\* ------------------------------------------------------------ properties
\* the Activities the last request appended, in order
Appended == SubSeq(activities, last.n_before + 1, Len(activities))

AppendedTypes == [k \in DOMAIN Appended |-> Appended[k].activity_type]

CountType(lead_id, t) ==
    Cardinality({k \in DOMAIN activities :
                    activities[k].lead_id = lead_id /\ activities[k].activity_type = t})

OutboundOps == {"make_call_to_lead", "send_email_to_lead", "send_whatsapp_to_lead"}

Normalizers == {"whatsapp_webhook", "meta_webhook", "process_emails"}

\* the last request named or resolved a lead that was in the store
OnLead == last.lead_id \in DOMAIN last.pre_leads

PreStatus == last.pre_leads[last.lead_id].status

\* the e-mail of the last scheduling payload is that of some lead
EmailMatches == \E i \in DOMAIN last.pre_leads : last.pre_leads[i].email = last.args.email

\* C1: mark_as_contacted changes the status only of a lead that is new.  On a
\* lead that is contacted, qualified, customer, disqualified or remarket, every
\* call (direct, or from an outbound endpoint) leaves all leads as they were
\* and appends no status_changed Activity; the direct call appends nothing and
\* returns without error unless the read of the lead itself raised.
C1_MarkAsContactedOnlyFromNew ==
    (/\ last.op \in OutboundOps \cup {"mark_as_contacted"}
     /\ OnLead
     /\ PreStatus # "new")
    => /\ leads = last.pre_leads
       /\ last.writes = <<>>
       /\ \A k \in DOMAIN Appended : Appended[k].activity_type # "status_changed"
       /\ last.op = "mark_as_contacted"
            => Appended = <<>> /\ (~last.faulted => last.exc = NoExc)

C1_Witness ==
    /\ last.op = "mark_as_contacted"
    /\ OnLead
    /\ PreStatus = "disqualified"
    /\ last.exc = NoExc
    /\ leads[last.lead_id].status = "disqualified"

\* C2: a scheduling webhook with event invitee.created whose e-mail matches a
\* lead, when no round trip raises, answers success, sets the status of the
\* lead it resolved to qualified whatever the status was, and appends a
\* meeting_scheduled Activity for that lead.
C2_InviteeCreatedQualifies ==
    (/\ last.op = "calendly_webhook"
     /\ last.args.event = "invitee.created"
     /\ EmailMatches
     /\ ~last.faulted)
    => /\ last.resp = [code |-> 200, outcome |-> "success"]
       /\ OnLead
       /\ last.pre_leads[last.lead_id].email = last.args.email
       /\ leads[last.lead_id].status = "qualified"
       /\ \E k \in DOMAIN Appended :
             /\ Appended[k].activity_type = "meeting_scheduled"
             /\ Appended[k].lead_id = last.lead_id

C2_Witness ==
    /\ last.op = "calendly_webhook"
    /\ last.args.event = "invitee.created"
    /\ OnLead
    /\ PreStatus = "disqualified"
    /\ leads[last.lead_id].status = "qualified"
    /\ "meeting_scheduled" \in {Appended[k].activity_type : k \in DOMAIN Appended}

\* C3: when POST /leads/{id}/call answers success for a lead that was new, the
\* lead is contacted and the request appended exactly a status_changed Activity
\* recording contacted and then a call_made Activity, both for that lead.
C3_CallOnNewLead ==
    (/\ last.op = "make_call_to_lead"
     /\ last.resp.code = 200
     /\ OnLead
     /\ PreStatus = "new")
    => /\ leads[last.lead_id].status = "contacted"
       /\ AppendedTypes = <<"status_changed", "call_made">>
       /\ \A k \in DOMAIN Appended : Appended[k].lead_id = last.lead_id
       /\ Appended[1].body = <<"Lead status changed to ", "contacted">>
       /\ last.dispatched = 1

C3_Witness ==
    /\ last.op = "make_call_to_lead"
    /\ last.resp.code = 200
    /\ OnLead
    /\ PreStatus = "new"
    /\ leads[last.lead_id].status = "contacted"
    /\ Len(Appended) = 2

\* C4: every lead created by an inbound normalizer (WhatsApp webhook, Meta
\* webhook, e-mail intake) has exactly one lead_created Activity with its id.
C4_ExactlyOneLeadCreated ==
    \A i \in DOMAIN leads :
        origin[i] \in Normalizers => CountType(i, "lead_created") = 1

\* C5: an inbound WhatsApp webhook from a number that matches no lead, when no
\* round trip raises, creates one lead with lead_source whatsapp and the sender
\* number without the whatsapp: prefix, and appends for it exactly lead_created
\* and then whatsapp_message with the message text in its body.
C5_WhatsappUnknownNumberCreatesLead ==
    (/\ last.op = "whatsapp_webhook"
     /\ ~last.faulted
     /\ \A i \in DOMAIN last.pre_leads :
           last.pre_leads[i].phone_number # StripWhatsapp(last.args.From))
    => /\ Len(leads) = Len(last.pre_leads) + 1
       /\ leads[Len(leads)].lead_source = "whatsapp"
       /\ leads[Len(leads)].phone_number = StripWhatsapp(last.args.From)
       /\ AppendedTypes = <<"lead_created", "whatsapp_message">>
       /\ \A k \in DOMAIN Appended : Appended[k].lead_id = Len(leads)
       /\ \E j \in DOMAIN Appended[2].body : Appended[2].body[j] = last.args.Body

\* C6: a voice-call completion webhook whose metadata has no lead_id is
\* answered with a 400-class status and appends no Activity.
C6_CallWebhookWithoutLeadId ==
    (last.op = "call_webhook" /\ last.args.lead_id = NoLead)
    => last.resp.code \in 400..499 /\ Appended = <<>>

\* C7: a scheduling webhook whose invitee e-mail matches no lead changes no
\* lead and appends no Activity, whatever the event; when no round trip raises
\* it answers with the warning outcome, not an error.
C7_NoMatchingLeadWarns ==
    (/\ last.op = "calendly_webhook"
     /\ last.args.email # NoValue
     /\ ~EmailMatches)
    => /\ leads = last.pre_leads
       /\ Appended = <<>>
       /\ ~last.faulted => last.resp = [code |-> 200, outcome |-> "warning"]

C7_Witness ==
    /\ last.op = "calendly_webhook"
    /\ last.args.event = "invitee.created"
    /\ last.args.email # NoValue
    /\ ~EmailMatches
    /\ Len(last.pre_leads) > 0
    /\ last.resp.outcome = "warning"

\* C8: a scheduling webhook with event invitee.canceled for a matching lead,
\* when no round trip raises, appends exactly one Activity, a meeting_canceled
\* for the resolved lead, and changes the status of no lead.
C8_CanceledOnlyLogs ==
    (/\ last.op = "calendly_webhook"
     /\ last.args.event = "invitee.canceled"
     /\ EmailMatches)
    => /\ leads = last.pre_leads
       /\ last.writes = <<>>
       /\ \A k \in DOMAIN Appended : Appended[k].activity_type # "status_changed"
       /\ ~last.faulted =>
             /\ OnLead
             /\ last.pre_leads[last.lead_id].email = last.args.email
             /\ AppendedTypes = <<"meeting_canceled">>
             /\ Appended[1].lead_id = last.lead_id

C8_Witness ==
    /\ last.op = "calendly_webhook"
    /\ last.args.event = "invitee.canceled"
    /\ OnLead
    /\ PreStatus = "new"
    /\ leads[last.lead_id].status = "new"
    /\ AppendedTypes = <<"meeting_canceled">>

\* the status_changed Activities the status writes of the last request call for
ExpectedStatusChanged ==
    [k \in DOMAIN last.writes |->
        [lead_id |-> last.writes[k], activity_type |-> "status_changed",
         body |-> <<"Lead status changed to ", leads[last.writes[k]].status>>]]

C10_AppendFailureSurfaces ==
    last.scfail =>
        /\ last.exc # NoExc
        /\ last.resp.code \in 400..599
        /\ last.resp.outcome # "success"

C10_Witness ==
    /\ last.scfail
    /\ last.op = "calendly_webhook"
    /\ OnLead
    /\ PreStatus = "new"
    /\ leads[last.lead_id].status = "qualified"
    /\ Appended = <<>>
    /\ last.resp.code = 500

\* the webhook endpoints of the four providers
WebhookOps == {"call_webhook", "whatsapp_webhook", "meta_webhook", "calendly_webhook"}

\* C11: every webhook handler (voice-call, WhatsApp, Meta, scheduling) answers
\* its caller with a success status even when its processing raised; the one
\* exception is a voice-call payload without the lead_id.
C11_WebhooksAlwaysAcknowledge ==
    (/\ last.op \in WebhookOps
     /\ ~(last.op = "call_webhook" /\ last.args.lead_id = NoLead))
    => last.resp.code = 200

\* the last request was a voice-call webhook that carried a lead_id, status
\* completed and a transcript
CompletedCallWithTranscript ==
    /\ last.op = "call_webhook"
    /\ last.args.lead_id # NoLead
    /\ last.args.status = "completed"
    /\ last.args.transcript # NoValue

\* C12: when the call analysis of such a webhook raises (a round trip raised
\* and it was not an append), the handler still answers success, the
\* call_completed Activity for the lead is the only Activity the request
\* appended, so no call_analyzed is appended, and no lead is changed.
C12_AnalysisFailureSwallowed ==
    (/\ CompletedCallWithTranscript
     /\ last.faulted
     /\ ~last.logfail)
    => /\ last.resp = [code |-> 200, outcome |-> "success"]
       /\ AppendedTypes = <<"call_completed">>
       /\ Appended[1].lead_id = last.args.lead_id
       /\ activities[last.n_before + 1].activity_type = "call_completed"
       /\ leads = last.pre_leads

C12_Witness ==
    /\ CompletedCallWithTranscript
    /\ last.faulted
    /\ ~last.logfail
    /\ last.resp.code = 200
    /\ AppendedTypes = <<"call_completed">>
    /\ last.args.lead_id \in DOMAIN leads

\* C13: for a voice-call webhook with a lead_id, when no round trip raises: with
\* status completed and a transcript the analysis returns its answers and the
\* request appends call_completed and then exactly one call_analyzed for the
\* lead; with another status or no transcript it appends call_completed only.
C13_AnalysisAppendsCallAnalyzed ==
    (/\ last.op = "call_webhook"
     /\ last.args.lead_id # NoLead
     /\ ~last.faulted)
    => /\ \A k \in DOMAIN Appended : Appended[k].lead_id = last.args.lead_id
       /\ IF CompletedCallWithTranscript
          THEN AppendedTypes = <<"call_completed", "call_analyzed">>
          ELSE AppendedTypes = <<"call_completed">>

\* the message events of the last Meta payload that carry a sender id
EventsWithSender == SelectSeq(last.args.events, LAMBDA e : e.sender # NoValue)

AppendedOfType(t) == SelectSeq(Appended, LAMBDA a : a.activity_type = t)

\* C14: a Messenger-shaped entry (a messaging array on a page object) posted to
\* /meta/webhook, when no round trip raises, appends exactly one
\* messenger_message Activity for each message event with a sender id, each
\* for a lead of the store: the lead with that platform id, or a lead the
\* request created.
C14_MessengerEventLogged ==
    (/\ last.op = "meta_webhook"
     /\ last.args.object = "page"
     /\ last.args.shape = "messaging"
     /\ ~last.faulted)
    => /\ Len(AppendedOfType("messenger_message")) = Len(EventsWithSender)
       /\ \A k \in DOMAIN Appended :
             Appended[k].activity_type = "messenger_message"
                => Appended[k].lead_id \in DOMAIN leads
       /\ Len(leads) <= Len(last.pre_leads) + Len(EventsWithSender)

\* C15: a WhatsApp Graph-API style entry (a changes array, neither the object
\* nor the field Instagram) posted to /meta/webhook, when no round trip raises,
\* appends one whatsapp_message Activity for each message it carries, each for
\* a lead of the store.
C15_WhatsappChangeLogged ==
    (/\ last.op = "meta_webhook"
     /\ last.args.object = "whatsapp_business_account"
     /\ last.args.shape = "changes"
     /\ ~last.faulted)
    => /\ Len(AppendedOfType("whatsapp_message")) = Len(last.args.events)
       /\ \A k \in DOMAIN Appended : Appended[k].lead_id \in DOMAIN leads

\* C16: when the profile lookup for the sender of a Meta message event fails
\* (no token, a non-200 answer, an exception) and no store round trip raises,
\* lead creation proceeds with the placeholder names: the request adds a lead
\* for the sender and the webhook answers success.
C16_LookupFailureStillCreatesLead ==
    (/\ last.op = "meta_webhook"
     /\ last.args.shape = "messaging"
     /\ EventsWithSender # <<>>
     /\ last.args.lookup \in {"no_token", "non200", "exception"}
     /\ ~last.faulted)
    => /\ last.resp = [code |-> 200, outcome |-> "success"]
       /\ Len(leads) = Len(last.pre_leads) + 1
       /\ leads[Len(leads)].email = PlaceholderEmail(EventsWithSender[1].sender)

\* the leads whose phone_number is the From value of the last WhatsApp webhook
\* without its whatsapp: prefix
PhoneMatches ==
    {i \in DOMAIN last.pre_leads :
        last.pre_leads[i].phone_number = StripWhatsapp(last.args.From)}

\* C17: an inbound WhatsApp webhook whose From value without the whatsapp:
\* prefix equals the phone_number of a lead creates no lead and appends no
\* lead_created Activity; when no round trip raises it answers success and
\* appends exactly one Activity, a whatsapp_message with the message text, for
\* a lead with that phone number.
C17_KnownNumberLogsOnExistingLead ==
    (/\ last.op = "whatsapp_webhook"
     /\ PhoneMatches # {})
    => /\ leads = last.pre_leads
       /\ AppendedOfType("lead_created") = <<>>
       /\ ~last.faulted =>
             /\ last.resp = [code |-> 200, outcome |-> "success"]
             /\ AppendedTypes = <<"whatsapp_message">>
             /\ Appended[1].lead_id \in PhoneMatches
             /\ Appended[1].lead_id = last.lead_id
             /\ Appended[1].body = <<"WhatsApp message received: ", last.args.Body>>

C17_Witness ==
    /\ last.op = "whatsapp_webhook"
    /\ last.lead_id \in PhoneMatches
    /\ last.args.From = <<"whatsapp:", "+15551234567">>
    /\ leads[last.lead_id].phone_number = <<"+15551234567">>
    /\ AppendedTypes = <<"whatsapp_message">>
    /\ Len(leads) = Len(last.pre_leads)

\* C18: Activities are append-only.  Every step keeps the log it found as a
\* prefix of the log it leaves: no Activity is modified or removed, so the log
\* of any later state extends the log of any earlier state.
C18_ActivitiesAppendOnly ==
    [][/\ Len(activities') >= Len(activities)
       /\ SubSeq(activities', 1, Len(activities)) = activities]_vars

\* two requests in a row have appended, the second after the records of the first
C18_Witness ==
    /\ nreq = 2
    /\ last.n_before >= 2
    /\ Len(Appended) >= 2
    /\ \E k \in 1..last.n_before : activities[k].activity_type = "status_changed"
    /\ Appended[Len(Appended)].activity_type = "call_made"

\* the last request asked for a dispatch to a lead of the store that lacks the
\* contact field the channel needs
MissingContactField ==
    /\ OnLead
    /\ \/ /\ last.op \in {"make_call_to_lead", "send_whatsapp_to_lead"}
          /\ Falsy(last.pre_leads[last.lead_id].phone_number)
       \/ /\ last.op = "send_email_to_lead"
          /\ last.pre_leads[last.lead_id].email = NoValue

\* C19: POST call or send-whatsapp on a lead without a phone number, and
\* send-email on a lead without an e-mail, when no round trip raises, is
\* answered with a 4xx status; nothing is dispatched, no lead is changed and no
\* Activity is appended.
C19_MissingContactFieldIs4xx ==
    (MissingContactField /\ ~last.faulted)
    => /\ last.resp.code \in 400..499
       /\ last.dispatched = 0
       /\ leads = last.pre_leads
       /\ Appended = <<>>

\* C20: a request that names a lead id not in the store (GET /leads/{id}, POST
\* call, send-email, send-whatsapp), when no round trip raises, is answered
\* with HTTP 404, changes no lead and appends no Activity.
C20_UnknownLeadIs404 ==
    (/\ last.op \in OutboundOps \cup {"get_lead"}
     /\ ~OnLead
     /\ ~last.faulted)
    => /\ last.resp.code = 404
       /\ leads = last.pre_leads
       /\ Appended = <<>>

\* the channel identity under which a normalizer created lead i: the sender's
\* phone number for the WhatsApp webhook, the sender's address for the others
ChannelIdentity(i) ==
    IF origin[i] = "whatsapp_webhook" THEN leads[i].phone_number
    ELSE <<leads[i].email>>

\* C21: inbound messages of one channel identity, delivered one after another,
\* create at most one lead: no two leads created by the same normalizer carry
\* the same channel identity.
C21_AtMostOneLeadPerIdentity ==
    \A i, j \in DOMAIN leads :
        (/\ i < j
         /\ origin[i] \in Normalizers
         /\ origin[j] = origin[i])
        => ChannelIdentity(i) # ChannelIdentity(j)

\* two WhatsApp deliveries of one sender that both looked the sender up, both
\* found no lead, and both ran to their end
BothMissed(p, q) ==
    /\ p # q
    /\ procs[p].kind = "whatsapp_webhook" /\ procs[q].kind = "whatsapp_webhook"
    /\ procs[p].From = procs[q].From
    /\ procs[p].missed /\ procs[q].missed
    /\ procs[p].pc = "done" /\ procs[q].pc = "done"

ContactedRecords(i) ==
    {k \in DOMAIN activities :
        /\ activities[k].lead_id = i
        /\ activities[k].activity_type = "status_changed"
        /\ activities[k].body = <<"Lead status changed to ", "contacted">>}

DeliveredMessage ==
    [lead_id |-> last.lead_id, activity_type |-> "whatsapp_message",
     body |-> <<"WhatsApp message received: ", last.args.Body>>]

\* how many records of log equal a
Copies(log, a) == Cardinality({k \in DOMAIN log : log[k] = a})

\* C24: there is no deduplication by message id.  An inbound WhatsApp delivery
\* to an existing lead, when no round trip raises, adds one more
\* whatsapp_message record for the lead whether or not the log already holds
\* the record of the same message (same MessageSid, sender and text): a second
\* delivery leaves two.
C24_RedeliveryAppendsAgain ==
    (/\ last.op = "whatsapp_webhook"
     /\ PhoneMatches # {}
     /\ ~last.faulted)
    => Copies(activities, DeliveredMessage)
         = Copies(SubSeq(activities, 1, last.n_before), DeliveredMessage) + 1

C24_Witness ==
    /\ last.op = "whatsapp_webhook"
    /\ nreq = 2
    /\ last.lead_id \in PhoneMatches
    /\ Copies(activities, DeliveredMessage) = 2
    /\ Len(leads) = 1

\* C25: every change of the status of a lead is a transition of the state
\* machine: from new to contacted, or from any status to qualified.
C25_OnlyStateMachineTransitions ==
    [][\A i \in DOMAIN leads :
          (i \in DOMAIN leads' /\ leads'[i].status # leads[i].status)
          => \/ leads[i].status = "new" /\ leads'[i].status = "contacted"
             \/ leads'[i].status = "qualified"]_vars

\* C26: in every reachable state the status of every lead is one of new,
\* contacted, qualified, customer, disqualified, remarket.
C26_StatusInEnum ==
    \A i \in DOMAIN leads :
        leads[i].status \in {"new", "contacted", "qualified", "customer",
                             "disqualified", "remarket"}

\* a lead moved to a value of the enum and a lead a normalizer created with one
C26_Witness ==
    /\ Len(leads) = 2
    /\ leads[1].status = "qualified"
    /\ hist.ntrans[1] = 1
    /\ leads[2].status = "new"
    /\ origin[2] \in Normalizers

\* C27: no operation deletes a lead.  Every step keeps every lead id of the
\* store, at its place, so a lead id once in the store is in it ever after.
C27_LeadsNeverDeleted ==
    [][/\ Len(leads') >= Len(leads)
       /\ \A i \in DOMAIN leads : leads'[i].id = leads[i].id]_vars

\* a lead of an earlier request is still there after a later request added one
C27_Witness ==
    /\ nreq = 2
    /\ Len(last.pre_leads) = 1
    /\ Len(leads) = 2
    /\ leads[1].id = last.pre_leads[1].id
    /\ origin[1] # "create_lead"

\* a flat payload f and a nested payload n with the same event name, invitee
\* email, start time, end time and event-type name
SameFiveFields(f, n) ==
    /\ "email" \in DOMAIN f
    /\ "payload" \in DOMAIN n
    /\ Get(f, "event") = Get(n, "event")
    /\ f.email = Get(n.payload, "email")
    /\ f.start_time = Get(n.payload, "start_time")
    /\ f.end_time = Get(n.payload, "end_time")
    /\ f.name = Get(GetD(n.payload, "event_type", <<>>), "name")

\* C28: the scheduling normalizer treats the flat and the nested shape alike.
\* On every store, two payloads of the two shapes with the same event name,
\* invitee email, start and end time and event-type name resolve the same
\* lead, leave the same leads and append the same Activities (type and body),
\* with the same outcome.
C28_FlatAndNestedAlike ==
    \A f, n \in CalendlyPayloads :
        SameFiveFields(f, n) =>
            \A ord \in Orders({i \in DOMAIN leads : leads[i].email = f.email}) :
                LET a == handle_webhook(Begin(0), f, ord)
                    b == handle_webhook(Begin(0), n, ord)
                IN  /\ a.lead_id = b.lead_id
                    /\ a.leads = b.leads
                    /\ a.acts = b.acts
                    /\ a.ret = b.ret

\* the leads the last request added to the store
NewLeads == DOMAIN leads \ DOMAIN last.pre_leads

\* C29: after a call of create_lead, returned or raised, the lead record and
\* its lead_created Activity are written together: a request that calls
\* create_lead has added a lead exactly when it has appended a lead_created
\* Activity with the id of that lead.
C29_LeadAndLeadCreatedTogether ==
    last.op \in {"create_lead"} \cup Normalizers
    => /\ \A i \in NewLeads :
             \E k \in DOMAIN Appended :
                /\ Appended[k].activity_type = "lead_created"
                /\ Appended[k].lead_id = i
       /\ \A k \in DOMAIN Appended :
             Appended[k].activity_type = "lead_created"
                => Appended[k].lead_id \in NewLeads

\* the inbound webhooks that are not the scheduling webhook
InboundNonScheduling == {"whatsapp_webhook", "meta_webhook", "call_webhook"}

\* C30: an inbound WhatsApp message, an inbound Meta message and a voice-call
\* completion webhook change the status of no lead: every lead the request
\* found keeps its status, the request issues no status write, and it appends
\* no status_changed Activity.
C30_InboundLeavesStatus ==
    last.op \in InboundNonScheduling
    => /\ \A i \in DOMAIN last.pre_leads :
             /\ i \in DOMAIN leads
             /\ leads[i].status = last.pre_leads[i].status
       /\ last.writes = <<>>
       /\ \A k \in DOMAIN Appended : Appended[k].activity_type # "status_changed"

\* an inbound WhatsApp message logged on an existing lead that is new, and
\* which is new afterwards
C30_Witness ==
    /\ last.op = "whatsapp_webhook"
    /\ OnLead
    /\ last.lead_id \in DOMAIN last.pre_leads
    /\ last.pre_leads[last.lead_id].status = "new"
    /\ leads[last.lead_id].status = "new"
    /\ AppendedTypes = <<"whatsapp_message">>

\* a call-completion webhook logged on an existing lead that is new, and
\* which is new afterwards
C30_WitnessCall ==
    /\ last.op = "call_webhook"
    /\ last.lead_id \in DOMAIN last.pre_leads
    /\ last.pre_leads[last.lead_id].status = "new"
    /\ leads[last.lead_id].status = "new"
    /\ Len(Appended) >= 1
    /\ Appended[1].activity_type = "call_completed"

\* the leads whose email the last request's payload names
EmailMatchSet == {i \in DOMAIN last.pre_leads : last.pre_leads[i].email = last.args.email}

\* C31: a scheduling webhook whose email matches more than one lead acts on
\* the first returned lead only: the lead it resolved is one of the matches,
\* every other lead is as the request found it, every status write and every
\* appended Activity of the request is for the resolved lead.
C31_FirstMatchOnly ==
    (/\ last.op = "calendly_webhook"
     /\ Cardinality(EmailMatchSet) > 1)
    => /\ OnLead => last.lead_id \in EmailMatchSet
       /\ \A i \in DOMAIN last.pre_leads :
             i # last.lead_id => /\ i \in DOMAIN leads
                                 /\ leads[i] = last.pre_leads[i]
       /\ \A k \in DOMAIN last.writes : last.writes[k] = last.lead_id
       /\ \A k \in DOMAIN Appended : Appended[k].lead_id = last.lead_id
       /\ Len(leads) = Len(last.pre_leads)

\* invitee.created for an email two leads share: one is qualified and has the
\* two Activities, the other keeps its status
C31_Witness ==
    /\ last.op = "calendly_webhook"
    /\ last.args.event = "invitee.created"
    /\ Cardinality(EmailMatchSet) = 2
    /\ OnLead
    /\ leads[last.lead_id].status = "qualified"
    /\ AppendedTypes = <<"status_changed", "meeting_scheduled">>
    /\ \E j \in EmailMatchSet : /\ j # last.lead_id
                                /\ leads[j].status = "new"
                                /\ j < last.lead_id

\* C32: every Activity's lead_id is the id of a lead that exists in the
\* store; POST /leads/{id}/activities and the voice-call webhook append no
\* Activity for a lead id that names no lead.
C32_ActivityLeadExists ==
    \A k \in DOMAIN activities : activities[k].lead_id \in DOMAIN leads

\* the round trip that raised in the last request was the vendor call
DispatchFailed == last.dispatched >= 1 /\ last.faulted /\ ~last.logfail

\* C33: no operation retries an external call.  Within one request to call,
\* send-email or send-whatsapp the outbound dispatcher is invoked at most once,
\* and when that invocation raises the request is answered with an error.
C33_NoRetry ==
    last.op \in OutboundOps
    => /\ last.dispatched <= 1
       /\ DispatchFailed => /\ last.resp.code >= 400
                            /\ last.resp.outcome = "error"

\* an outbound request whose single vendor call raised
C33_Witness ==
    /\ last.op \in OutboundOps
    /\ OnLead
    /\ DispatchFailed
    /\ last.dispatched = 1
    /\ last.resp.code = 500

\* C34: update_lead_status on a lead id that matches no lead raises an error,
\* appends no status_changed Activity (no Activity at all) and changes no lead.
C34_UnknownIdRaises ==
    (/\ last.op = "update_lead_status"
     /\ last.args.lead_id \notin DOMAIN last.pre_leads)
    => /\ last.exc # NoExc
       /\ leads = last.pre_leads
       /\ last.writes = <<>>
       /\ Appended = <<>>

\* a call for an unknown id on a store that holds a lead, where the update
\* round trip itself went through and the method raised on the empty result
C34_Witness ==
    /\ last.op = "update_lead_status"
    /\ last.pre_leads # <<>>
    /\ last.args.lead_id \notin DOMAIN last.pre_leads
    /\ ~last.faulted
    /\ last.exc = "Exception"
    /\ leads = last.pre_leads

\* the lead_source the Meta normalizer is to give a lead made from an entry
\* with a messaging array
MessagingSource == IF last.args.object = "instagram" THEN "instagram"
                   ELSE "facebook messenger"

\* C35: the Meta normalizer branches on the payload shape.  A message event
\* of an entry with a messaging array makes a new lead whose lead_source is
\* instagram exactly when the top-level object is instagram and facebook
\* messenger otherwise (when no store round trip raises); an entry with
\* neither a messaging nor a changes array creates no lead and no Activity.
C35_MetaBranchesOnShape ==
    last.op = "meta_webhook"
    => /\ (/\ last.args.shape = "messaging"
           /\ EventsWithSender # <<>>
           /\ ~last.faulted)
          => \E i \in NewLeads : leads[i].lead_source = MessagingSource
       /\ last.args.shape = "other"
          => leads = last.pre_leads /\ Appended = <<>>

\* C36: in the outbound endpoints the contacted transition is applied before
\* the dispatch and is not undone.  When the dispatcher call raises for a lead
\* that was new, the request ends with an error, the lead is contacted, and
\* the request has appended the status_changed Activity and no call_made,
\* email_sent or whatsapp_message Activity.
C36_ContactedSurvivesDispatchFailure ==
    (/\ last.op \in OutboundOps
     /\ OnLead
     /\ PreStatus = "new"
     /\ DispatchFailed)
    => /\ last.resp.code >= 400
       /\ last.resp.outcome = "error"
       /\ leads[last.lead_id].status = "contacted"
       /\ last.writes = <<last.lead_id>>
       /\ Appended = <<[lead_id |-> last.lead_id, activity_type |-> "status_changed",
                        body |-> <<"Lead status changed to ", "contacted">>]>>

\* a call request to a new lead whose vendor call raised: the lead is
\* contacted and the only Activity of the request is the status change
C36_Witness ==
    /\ last.op = "make_call_to_lead"
    /\ OnLead
    /\ PreStatus = "new"
    /\ DispatchFailed
    /\ leads[last.lead_id].status = "contacted"
    /\ AppendedTypes = <<"status_changed">>
    /\ last.resp.code = 500

\* C37: a scheduling webhook that carries no invitee email, flat or under
\* payload, raises an error before any lookup: no store round trip is made,
\* the request is answered with an error, no lead changes and no Activity is
\* appended.
C37_NoEmailRaises ==
    (/\ last.op = "calendly_webhook"
     /\ last.args.email = NoValue)
    => /\ last.exc = "ValueError"
       /\ ~last.faulted
       /\ last.lead_id = NoLead
       /\ last.resp.code >= 400
       /\ last.resp.outcome = "error"
       /\ leads = last.pre_leads
       /\ last.writes = <<>>
       /\ Appended = <<>>

\* invitee.created without an email, posted while the store holds a lead
C37_Witness ==
    /\ last.op = "calendly_webhook"
    /\ last.args.email = NoValue
    /\ last.args.event = "invitee.created"
    /\ last.pre_leads # <<>>
    /\ last.exc = "ValueError"
    /\ last.resp.code = 500

\* C38: a scheduling webhook for a matching lead whose event is neither
\* invitee.created nor invitee.canceled (a missing event name included)
\* changes no lead, writes no status and appends no Activity, and returns the
\* success outcome unless the lookup itself raised.
C38_OtherEventNoEffect ==
    (/\ last.op = "calendly_webhook"
     /\ EmailMatches
     /\ last.args.event \notin {"invitee.created", "invitee.canceled"})
    => /\ leads = last.pre_leads
       /\ last.writes = <<>>
       /\ Appended = <<>>
       /\ ~last.faulted => /\ last.resp.code = 200
                           /\ last.resp.outcome = "success"
                           /\ OnLead

\* a webhook without an event name for the email of a lead, answered success
C38_Witness ==
    /\ last.op = "calendly_webhook"
    /\ EmailMatches
    /\ last.args.event = NoValue
    /\ last.resp.outcome = "success"
    /\ Appended = <<>>

\* invitee.rescheduled for the email of a lead, answered success
C38_WitnessRescheduled ==
    /\ last.op = "calendly_webhook"
    /\ EmailMatches
    /\ last.args.event = "invitee.rescheduled"
    /\ last.resp.outcome = "success"
    /\ leads = last.pre_leads

\* the last request carried a message event without a sender id
HasSenderlessEvent ==
    \E k \in DOMAIN last.args.events : last.args.events[k].sender = NoValue

\* C39: a Meta message event without a sender id is skipped.  It creates no
\* lead and appends no Activity, and the other events of the same webhook are
\* still processed: when no store round trip raises, the request appends one
\* messenger_message Activity for each event that has a sender, and creates
\* at most one lead for each of them.
C39_SenderlessEventSkipped ==
    (/\ last.op = "meta_webhook"
     /\ last.args.shape = "messaging"
     /\ HasSenderlessEvent
     /\ ~last.faulted)
    => /\ Cardinality(NewLeads) <= Len(EventsWithSender)
       /\ Len(AppendedOfType("messenger_message")) = Len(EventsWithSender)
       /\ Len(Appended) <= 2 * Len(EventsWithSender)

\* the unread e-mails the last process-emails run found (their senders)
Unread == last.args

\* the count the run reports: processed_count
ProcessedCount == last.dispatched

\* C40: in process_new_emails an unread e-mail is marked read only after its
\* lead was created; an e-mail whose processing fails stays unread, is not
\* counted and does not stop the later e-mails.  Every e-mail marked read has
\* a lead of its own that the run created from its sender, the reported count
\* is the number of e-mails marked read, and once the list of unread e-mails
\* was fetched at most the one e-mail during which a round trip raised is
\* left unread.
C40_MarkReadAfterLeadCreated ==
    last.op = "process_emails"
    => /\ \A k \in DOMAIN last.marked :
             /\ last.marked[k].lead \in NewLeads
             /\ leads[last.marked[k].lead].email = last.marked[k].sender
             /\ leads[last.marked[k].lead].lead_source = "email"
             /\ \A j \in DOMAIN last.marked : j # k => last.marked[j].lead # last.marked[k].lead
       /\ ProcessedCount = Len(last.marked)
       /\ Len(last.marked) <= Len(Unread)
       /\ last.exc = NoExc
             => Len(last.marked) >= Len(Unread) - (IF last.faulted THEN 1 ELSE 0)
       /\ last.exc # NoExc => last.marked = <<>> /\ leads = last.pre_leads

\* two unread e-mails, the processing of the first raised: it stays unread
\* and is not counted, the second has its lead and is marked read
C40_Witness ==
    /\ last.op = "process_emails"
    /\ Len(Unread) = 2
    /\ last.faulted
    /\ last.exc = NoExc
    /\ ProcessedCount = 1
    /\ Len(last.marked) = 1
    /\ last.marked[1].sender = Unread[2]
    /\ Unread[1] # Unread[2]
    /\ \A i \in NewLeads : leads[i].email = Unread[2]

\* the lead of an e-mail was created and the mark-read raised: the e-mail is
\* unread and not counted
C40_WitnessMarkReadFailed ==
    /\ last.op = "process_emails"
    /\ Len(Unread) = 1
    /\ last.faulted
    /\ ~last.logfail
    /\ Cardinality(NewLeads) = 1
    /\ last.marked = <<>>
    /\ ProcessedCount = 0

====
